---- MODULE Spec2Model ----
(***************************************************************************)
(* A model of taubot's command layer (src/src/commands.py): the command    *)
(* table, the dispatcher process_command, the handlers, the parsers and    *)
(* the signed-proxy protocol.                                              *)
(*                                                                         *)
(* Text.  A message is a sequence of symbols.  A symbol is a record        *)
(* [c, k, h]: a white-space character (c is "SP", "NL" or "CR"), a word    *)
(* (a run of non-white-space characters, named by c), or the base64        *)
(* encoding of a signature (c = "b64", made with private key k over the    *)
(* digest of the text h).  Python's str.split, str.split('\n', 1) and      *)
(* str.strip are modelled symbol by symbol.                                *)
(*                                                                         *)
(* The accounting server, the Authorization enumeration and the crypto     *)
(* library are not part of commands.py; they are modelled from the         *)
(* interfaces the specification gives for them.                            *)
(***************************************************************************)
EXTENDS Integers, Sequences, FiniteSets, TLC

VARIABLES server,    \* the ledger behind the AccountingService
          before,    \* the ledger as it was when the message arrived
          pc,        \* "idle", or "replied" (a reply is on its way to the caller)
          author,    \* the author of the message processed last
          message,   \* the message processed last
          reply,     \* what process_command returned for it
          escaped,   \* TRUE when a CommandException left process_command
          calls      \* the service calls and dispatch events of that run, in order

vars == <<server, before, pc, author, message, reply, escaped, calls>>

----------------------------------------------------------------------------
(* Bounds *)

MaxBalance == 1     \* balances stay in 0..MaxBalance
MaxKeys == 2        \* registered public keys per account
MaxRecurring == 1   \* recurring transfers set up
MaxExtra == 1       \* words tried beyond the number a parser asks for

----------------------------------------------------------------------------
(* Symbols and text *)

W(s) == [c |-> s, k |-> "", h |-> <<>>]
SP == W("SP")
NL == W("NL")
CR == W("CR")
Whitespace == {SP, NL, CR}
LineEnds == {NL, CR}

Tok(s) == <<W(s)>>

\* the positions where a run of non-white-space symbols starts, and where
\* the run that starts at i ends
RunStarts(text) ==
  {i \in 1..Len(text) : text[i] \notin Whitespace /\ (i = 1 \/ text[i - 1] \in Whitespace)}
RunEnd(text, i) ==
  CHOOSE j \in i..Len(text) :
    /\ \A n \in i..j : text[n] \notin Whitespace
    /\ (j = Len(text) \/ text[j + 1] \in Whitespace)

\* str.split(): the maximal runs of non-white-space symbols, in order
Split(text) ==
  LET starts == RunStarts(text)
      nth(n) == CHOOSE i \in starts : Cardinality({j \in starts : j < i}) = n - 1
  IN [n \in 1..Cardinality(starts) |-> SubSeq(text, nth(n), RunEnd(text, nth(n)))]

FirstNL(text) ==
  IF \E i \in 1..Len(text) : text[i] = NL
  THEN CHOOSE i \in 1..Len(text) : text[i] = NL /\ \A j \in 1..(i - 1) : text[j] # NL
  ELSE 0

\* str.split('\n', 1): one part without a line feed, else the text before
\* the first line feed and the text after it
SplitNL1(text) ==
  IF FirstNL(text) = 0
  THEN <<text>>
  ELSE <<SubSeq(text, 1, FirstNL(text) - 1), SubSeq(text, FirstNL(text) + 1, Len(text))>>

RECURSIVE LStrip(_, _)
LStrip(text, chars) ==
  IF text # <<>> /\ Head(text) \in chars THEN LStrip(Tail(text), chars) ELSE text

RECURSIVE RStrip(_, _)
RStrip(text, chars) ==
  IF text # <<>> /\ text[Len(text)] \in chars
  THEN RStrip(SubSeq(text, 1, Len(text) - 1), chars)
  ELSE text

\* str.strip(chars): every leading and every trailing symbol of chars goes
StripChars(text, chars) == RStrip(LStrip(text, chars), chars)

\* str.strip()
Strip(text) == StripChars(text, Whitespace)

RECURSIVE JoinWith(_, _)
JoinWith(parts, sep) ==
  IF parts = <<>> THEN <<>>
  ELSE IF Len(parts) = 1 THEN parts[1]
  ELSE parts[1] \o <<sep>> \o JoinWith(Tail(parts), sep)

\* the text whose words are ws, separated by single spaces
Line(ws) == JoinWith([i \in 1..Len(ws) |-> Tok(ws[i])], SP)

----------------------------------------------------------------------------
(* int() and the Authorization enumeration *)

IntWords == {"0", "1", "2", "-1"}
IntValue(w) == CASE w = "0" -> 0 [] w = "1" -> 1 [] w = "2" -> 2 [] w = "-1" -> (0 - 1)

\* int(text) of a token: a value, or ValueError
IsInt(tok) == Len(tok) = 1 /\ tok[1].c \in IntWords
ToInt(tok) == IntValue(tok[1].c)

CITIZEN == 0
ADMIN == 1
DEVELOPER == 2
Levels == {CITIZEN, ADMIN, DEVELOPER}

LevelName(l) == CASE l = CITIZEN -> "CITIZEN" [] l = ADMIN -> "ADMIN" [] l = DEVELOPER -> "DEVELOPER"

\* str.upper() on the words of the model
Upper(w) ==
  CASE w \in {"citizen", "Citizen", "CITIZEN"} -> "CITIZEN"
    [] w \in {"admin", "Admin", "ADMIN"} -> "ADMIN"
    [] w \in {"developer", "DEVELOPER"} -> "DEVELOPER"
    [] OTHER -> w

\* Authorization[name]: a member, or KeyError
IsLevelName(tok) == Len(tok) = 1 /\ Upper(tok[1].c) \in {"CITIZEN", "ADMIN", "DEVELOPER"}
LevelOf(tok) ==
  CASE Upper(tok[1].c) = "CITIZEN" -> CITIZEN
    [] Upper(tok[1].c) = "ADMIN" -> ADMIN
    [] Upper(tok[1].c) = "DEVELOPER" -> DEVELOPER

----------------------------------------------------------------------------
(* The accounting server *)

\* server = [accounts, auth, balance, keys, recurring]: the set of account
\* names, per account its level, balance and registered public keys in
\* order, and the number of recurring transfers set up

has_account(s, name) == name \in s.accounts
get_authorization(s, name) == s.auth[name]
get_balance(s, name) == s.balance[name]
list_public_keys(s, name) == s.keys[name]

Extend(f, x, v) == [y \in (DOMAIN f) \cup {x} |-> IF y = x THEN v ELSE f[y]]

open_account(s, name) ==
  [s EXCEPT !.accounts = @ \cup {name},
            !.auth = Extend(@, name, CITIZEN),
            !.balance = Extend(@, name, 0),
            !.keys = Extend(@, name, <<>>)]

authorize(s, beneficiary, level) == [s EXCEPT !.auth[beneficiary] = level]

can_transfer(s, sender, dest, amount) == amount > 0 /\ s.balance[sender] >= amount

transfer(s, sender, dest, amount) ==
  [s EXCEPT !.balance = [n \in DOMAIN s.balance |->
      s.balance[n] - (IF n = sender THEN amount ELSE 0) + (IF n = dest THEN amount ELSE 0)]]

print_money(s, beneficiary, amount) == [s EXCEPT !.balance[beneficiary] = @ + amount]

create_recurring_transfer(s) == [s EXCEPT !.recurring = @ + 1]

RECURSIVE SetToSeq(_)
SetToSeq(S) == IF S = {} THEN <<>> ELSE LET x == CHOOSE x \in S : TRUE IN <<x>> \o SetToSeq(S \ {x})

\* the accounts, in the order the server lists them
list_accounts(s) == SetToSeq(s.accounts)

\* the keys of an account are an ordered set: a key it has is not added again
add_public_key(s, name, key) ==
  IF \E i \in 1..Len(s.keys[name]) : s.keys[name][i] = key THEN s
  ELSE [s EXCEPT !.keys[name] = Append(@, key)]

----------------------------------------------------------------------------
(* Hashing and signatures *)

Keys == {"k1", "k2"}

\* SHA3_512.new(text.encode('utf-8')): distinct texts, distinct digests
SHA3_512(text) == [alg |-> "SHA3_512", data |-> text]

\* signer.sign(digest) with the private key k
Sign(k, digest) == [signer |-> k, digest |-> digest]

\* a signature no key made over any digest
Garbage == [signer |-> "", digest |-> SHA3_512(<<>>)]

\* base64.b64encode(signature).decode('utf-8'): one word
B64(sig) == [c |-> "b64", k |-> sig.signer, h |-> sig.digest.data]

\* words base64.b64decode rejects (incorrect padding)
B64Malformed == {"abc"}

\* base64.b64decode(token): the signature a "b64" word encodes, other
\* bytes for any other well-padded token, or an error
B64Valid(tok) == \A i \in 1..Len(tok) : tok[i].c \notin B64Malformed
B64Decode(tok) ==
  IF Len(tok) = 1 /\ tok[1].c = "b64" THEN Sign(tok[1].k, SHA3_512(tok[1].h)) ELSE Garbage

\* verifier.verify(digest, signature) with the public key of k: TRUE, or ValueError
Verify(k, digest, sig) == sig.signer = k /\ sig.digest = digest

\* the PEM text of the public key of k, and ECC.import_key
Pem(k) == [c |-> "pem", k |-> k, h |-> <<>>]
IsPem(text) == Len(text) = 1 /\ text[1].c = "pem" /\ text[1].k \in Keys
ImportKey(text) == text[1].k

----------------------------------------------------------------------------
(* Results, replies and the event log *)

\* one service call or dispatch event
E(op, args) == [op |-> op, args |-> args]

\* a reply text: which text it is, the name it mentions, the lines it lists
Reply(kind, who, items) == [kind |-> kind, who |-> who, items |-> items]

\* a handler's outcome: it returned text, or raised CommandException(text)
Ret(s, log, text) == [s |-> s, log |-> log, raised |-> FALSE, text |-> text]
Raise(s, log, text) == [s |-> s, log |-> log, raised |-> TRUE, text |-> text]

\* the outcome r of a callee, after the events in log
After(log, r) == [r EXCEPT !.log = log \o @]

----------------------------------------------------------------------------
(* Assertions *)

assert_is_account(account_name, s) ==
  IF ~has_account(s, account_name)
  THEN [ok |-> FALSE,
        log |-> <<E("has_account", <<account_name>>)>>,
        text |-> Reply("Sorry, I cannot process your request because %s does not have an account yet.",
                       account_name, <<>>)]
  ELSE [ok |-> TRUE,
        log |-> <<E("has_account", <<account_name>>), E("get_account", <<account_name>>)>>,
        text |-> Reply("", <<>>, <<>>)]

\* assert_authorized with one denial text for a missing account and for a
\* level below the required one
assert_authorized_generic(account_name, s, auth_level) ==
  LET account == assert_is_account(account_name, s)
      denial == Reply("Sorry, I cannot process your request because %s does not have the required authorization.",
                      account_name, <<>>)
  IN
  IF ~account.ok THEN [account EXCEPT !.text = denial]
  ELSE IF get_authorization(s, account_name) < auth_level
  THEN [ok |-> FALSE,
        log |-> Append(account.log, E("get_authorization", <<account_name>>)),
        text |-> denial]
  ELSE [ok |-> TRUE,
        log |-> Append(account.log, E("get_authorization", <<account_name>>)),
        text |-> Reply("", <<>>, <<>>)]

\* assert_authorized without the comparison of levels
assert_authorized_any_level(account_name, s, auth_level) ==
  LET account == assert_is_account(account_name, s) IN
  IF ~account.ok THEN account
  ELSE [ok |-> TRUE,
        log |-> Append(account.log, E("get_authorization", <<account_name>>)),
        text |-> Reply("", <<>>, <<>>)]

\* assert_authorized that asks for the required level exactly
assert_authorized_exact(account_name, s, auth_level) ==
  LET account == assert_is_account(account_name, s) IN
  IF ~account.ok THEN account
  ELSE IF get_authorization(s, account_name) # auth_level
  THEN [ok |-> FALSE,
        log |-> Append(account.log, E("get_authorization", <<account_name>>)),
        text |-> Reply("Sorry, I cannot process your request because %s does not have the required authorization.",
                       account_name, <<>>)]
  ELSE [ok |-> TRUE,
        log |-> Append(account.log, E("get_authorization", <<account_name>>)),
        text |-> Reply("", <<>>, <<>>)]

\* assert_authorized with the comparison of levels turned around
assert_authorized_inverted(account_name, s, auth_level) ==
  LET account == assert_is_account(account_name, s) IN
  IF ~account.ok THEN account
  ELSE IF get_authorization(s, account_name) > auth_level
  THEN [ok |-> FALSE,
        log |-> Append(account.log, E("get_authorization", <<account_name>>)),
        text |-> Reply("Sorry, I cannot process your request because %s does not have the required authorization.",
                       account_name, <<>>)]
  ELSE [ok |-> TRUE,
        log |-> Append(account.log, E("get_authorization", <<account_name>>)),
        text |-> Reply("", <<>>, <<>>)]

assert_authorized(account_name, s, auth_level) ==
  LET account == assert_is_account(account_name, s) IN
  IF ~account.ok THEN account
  ELSE IF get_authorization(s, account_name) < auth_level
  THEN [ok |-> FALSE,
        log |-> Append(account.log, E("get_authorization", <<account_name>>)),
        text |-> Reply("Sorry, I cannot process your request because %s does not have the required authorization.",
                       account_name, <<>>)]
  ELSE [ok |-> TRUE,
        log |-> Append(account.log, E("get_authorization", <<account_name>>)),
        text |-> Reply("", <<>>, <<>>)]

----------------------------------------------------------------------------
(* Transfers *)

None == [ok |-> FALSE, val |-> <<>>]
Some(v) == [ok |-> TRUE, val |-> v]

parse_transfer_command(msg) ==
  LET body == Split(msg) IN
  IF Len(body) # 3 THEN None
  ELSE IF ~IsInt(body[2]) THEN None
  ELSE Some([amount |-> ToInt(body[2]), destination |-> body[3]])

\* perform_transfer without the early return when can_transfer is false
perform_transfer_unchecked(author_name, sender_name, destination_name, amount, s) ==
  LET a == assert_is_account(author_name, s)
      b == assert_is_account(sender_name, s)
      d == assert_is_account(destination_name, s)
      checked == a.log \o b.log \o d.log
                   \o <<E("can_transfer", <<sender_name, destination_name, amount>>)>>
  IN
  IF ~a.ok THEN Raise(s, a.log, a.text)
  ELSE IF ~b.ok THEN Raise(s, a.log \o b.log, b.text)
  ELSE IF ~d.ok THEN Raise(s, a.log \o b.log \o d.log, d.text)
  ELSE Ret(transfer(s, sender_name, destination_name, amount),
           Append(checked, E("transfer", <<author_name, sender_name, destination_name, amount>>)),
           Reply("Transfer performed successfully.", <<>>, <<>>))

perform_transfer(author_name, sender_name, destination_name, amount, s) ==
  LET a == assert_is_account(author_name, s)
      b == assert_is_account(sender_name, s)
      d == assert_is_account(destination_name, s)
      checked == a.log \o b.log \o d.log
                   \o <<E("can_transfer", <<sender_name, destination_name, amount>>)>>
  IN
  IF ~a.ok THEN Raise(s, a.log, a.text)
  ELSE IF ~b.ok THEN Raise(s, a.log \o b.log, b.text)
  ELSE IF ~d.ok THEN Raise(s, a.log \o b.log \o d.log, d.text)
  ELSE IF ~can_transfer(s, sender_name, destination_name, amount)
  THEN Ret(s, checked, Reply("Sorry, but I cannot perform that transfer.", <<>>, <<>>))
  ELSE Ret(transfer(s, sender_name, destination_name, amount),
           Append(checked, E("transfer", <<author_name, sender_name, destination_name, amount>>)),
           Reply("Transfer performed successfully.", <<>>, <<>>))

process_transfer(auth, msg, s) ==
  LET parse_result == parse_transfer_command(msg) IN
  IF ~parse_result.ok
  THEN Ret(s, <<>>, Reply("Transfer formatted incorrectly.", <<>>, <<>>))
  ELSE perform_transfer(auth, auth, parse_result.val.destination, parse_result.val.amount, s)

parse_admin_transfer_command(msg) ==
  LET body == Split(msg) IN
  IF Len(body) # 4 THEN None
  ELSE IF ~IsInt(body[2]) THEN None
  ELSE Some([sender |-> body[3], amount |-> ToInt(body[2]), destination |-> body[4]])

process_admin_transfer(auth, msg, s) ==
  LET a == assert_authorized(auth, s, ADMIN)
      parse_result == parse_admin_transfer_command(msg)
  IN
  IF ~a.ok THEN Raise(s, a.log, a.text)
  ELSE IF ~parse_result.ok
  THEN Ret(s, a.log, Reply("Admin transfer formatted incorrectly.", <<>>, <<>>))
  ELSE After(a.log, perform_transfer(auth, parse_result.val.sender, parse_result.val.destination,
                                     parse_result.val.amount, s))

----------------------------------------------------------------------------
(* Accounts *)

process_open_account(auth, msg, s) ==
  IF has_account(s, auth)
  THEN Ret(s, <<E("has_account", <<auth>>)>>,
           Reply("Hi there %s. Looks like you already have an account. No need to open another one.", auth, <<>>))
  ELSE Ret(open_account(s, auth),
           <<E("has_account", <<auth>>), E("open_account", <<auth>>)>>,
           Reply("Hi there %s. Your account has been opened successfully. Thank you for your business.", auth, <<>>))

\* process_admin_open_account without the look-up of the name to open
process_admin_open_account_unchecked(auth, msg, s) ==
  LET a == assert_authorized(auth, s, ADMIN)
      body == Split(msg)
  IN
  IF ~a.ok THEN Raise(s, a.log, a.text)
  ELSE IF Len(body) # 2
  THEN Raise(s, a.log, Reply("Incorrectly formatted command; expected admin-open ACCOUNT_NAME", <<>>, <<>>))
  ELSE Ret(open_account(s, body[2]),
           a.log \o <<E("open_account", <<body[2]>>)>>,
           Reply("Account %s has been opened successfully.", body[2], <<>>))

process_admin_open_account(auth, msg, s) ==
  LET a == assert_authorized(auth, s, ADMIN)
      body == Split(msg)
  IN
  IF ~a.ok THEN Raise(s, a.log, a.text)
  ELSE IF Len(body) # 2
  THEN Raise(s, a.log, Reply("Incorrectly formatted command; expected admin-open ACCOUNT_NAME", <<>>, <<>>))
  ELSE IF has_account(s, body[2])
  THEN Raise(s, Append(a.log, E("has_account", <<body[2]>>)),
             Reply("Account %s already exists.", body[2], <<>>))
  ELSE Ret(open_account(s, body[2]),
           a.log \o <<E("has_account", <<body[2]>>), E("open_account", <<body[2]>>)>>,
           Reply("Account %s has been opened successfully.", body[2], <<>>))

process_balance(auth, msg, s) ==
  IF ~has_account(s, auth)
  THEN Ret(s, <<E("has_account", <<auth>>)>>,
           Reply("Hi there %s. I cannot tell you what the balance on your account is because you do not have an account yet.",
                 auth, <<>>))
  ELSE Ret(s, <<E("has_account", <<auth>>), E("get_account", <<auth>>)>>,
           Reply("Hi there %s %s. The balance on your account is %s. Have a great day.", auth,
                 <<LevelName(get_authorization(s, auth)), ToString(get_balance(s, auth))>>))

RECURSIVE SplitNL(_)
\* str.split('\n'): the text between the line feeds
SplitNL(text) ==
  IF FirstNL(text) = 0 THEN <<text>>
  ELSE <<SplitNL1(text)[1]>> \o SplitNL(SplitNL1(text)[2])

\* str.isspace()
IsSpace(text) == text # <<>> /\ \A i \in 1..Len(text) : text[i] \in Whitespace

process_add_public_key(auth, msg, s) ==
  LET account == assert_is_account(auth, s)
      lines == Tail(SplitNL(msg))
      pem == JoinWith(SelectSeq(lines, LAMBDA line : line # <<>> /\ ~IsSpace(line)), NL)
  IN
  IF ~account.ok THEN Raise(s, account.log, account.text)
  ELSE IF ~IsPem(pem)
  THEN Raise(s, account.log, Reply("Incorrectly formatted key.", <<>>, <<>>))
  ELSE Ret(add_public_key(s, auth, ImportKey(pem)),
           Append(account.log, E("add_public_key", <<auth, ImportKey(pem)>>)),
           Reply("Public key added successfully.", <<>>, <<>>))

----------------------------------------------------------------------------
(* Authorization, listing, money *)

parse_authorization(msg) ==
  LET body == Split(msg) IN
  IF Len(body) # 3 THEN None
  ELSE IF ~IsLevelName(body[3]) THEN None
  ELSE Some([beneficiary |-> body[2], auth_level |-> LevelOf(body[3])])

process_authorization(auth, msg, s) ==
  LET author_account == assert_authorized(auth, s, ADMIN)
      parsed == parse_authorization(msg)
      beneficiary_account == assert_is_account(parsed.val.beneficiary, s)
  IN
  IF ~author_account.ok THEN Raise(s, author_account.log, author_account.text)
  ELSE IF ~parsed.ok
  THEN Raise(s, author_account.log, Reply("Authorization formatted incorrectly.", <<>>, <<>>))
  ELSE IF ~beneficiary_account.ok
  THEN Raise(s, author_account.log \o beneficiary_account.log, beneficiary_account.text)
  ELSE Ret(authorize(s, parsed.val.beneficiary, parsed.val.auth_level),
           author_account.log \o beneficiary_account.log
             \o <<E("authorize", <<auth, parsed.val.beneficiary, parsed.val.auth_level>>)>>,
           Reply("%s now has authorization level %s.", parsed.val.beneficiary,
                 <<LevelName(parsed.val.auth_level)>>))

process_list_accounts(auth, msg, s) ==
  LET accounts == list_accounts(s) IN
  Ret(s, <<E("list_accounts", <<>>)>>,
      Reply("| Account | Balance |", <<>>,
            [i \in 1..Len(accounts) |-> ToString(<<accounts[i], get_balance(s, accounts[i])>>)]))

parse_print_money(msg) ==
  LET body == Split(msg) IN
  IF Len(body) # 3 THEN None
  ELSE IF ~IsInt(body[2]) THEN None
  ELSE Some([amount |-> ToInt(body[2]), beneficiary |-> body[3]])

process_print_money(auth, msg, s) ==
  LET author_account == assert_authorized(auth, s, ADMIN)
      parsed == parse_print_money(msg)
      beneficiary_account == assert_is_account(parsed.val.beneficiary, s)
  IN
  IF ~author_account.ok THEN Raise(s, author_account.log, author_account.text)
  ELSE IF ~parsed.ok
  THEN Raise(s, author_account.log, Reply("Command formatted incorrectly. Expected format print-money AMOUNT BENEFICIARY.", <<>>, <<>>))
  ELSE IF ~beneficiary_account.ok
  THEN Raise(s, author_account.log \o beneficiary_account.log, beneficiary_account.text)
  ELSE Ret(print_money(s, parsed.val.beneficiary, parsed.val.amount),
           author_account.log \o beneficiary_account.log
             \o <<E("print_money", <<auth, parsed.val.beneficiary, parsed.val.amount>>)>>,
           Reply("Money printed successfully.", <<>>, <<>>))

\* parse_admin_create_recurring_transfer that takes the first five words of a
\* longer message
parse_admin_create_recurring_transfer_lenient(msg) ==
  LET body == Split(msg) IN
  IF Len(body) < 5 THEN None
  ELSE IF ~IsInt(body[2]) \/ ~IsInt(body[5]) THEN None
  ELSE Some([amount |-> ToInt(body[2]), sender |-> body[3], destination |-> body[4],
             tick_count |-> ToInt(body[5])])

parse_admin_create_recurring_transfer(msg) ==
  LET body == Split(msg) IN
  IF Len(body) # 5 THEN None
  ELSE IF ~IsInt(body[2]) \/ ~IsInt(body[5]) THEN None
  ELSE Some([amount |-> ToInt(body[2]), sender |-> body[3], destination |-> body[4],
             tick_count |-> ToInt(body[5])])

process_admin_create_recurring_transfer(auth, msg, s) ==
  LET a == assert_authorized(auth, s, ADMIN)
      parse_result == parse_admin_create_recurring_transfer(msg)
      author_account == assert_is_account(auth, s)
      sender_account == assert_is_account(parse_result.val.sender, s)
      dest_account == assert_is_account(parse_result.val.destination, s)
      looked_up == a.log \o author_account.log \o sender_account.log \o dest_account.log
  IN
  IF ~a.ok THEN Raise(s, a.log, a.text)
  ELSE IF ~parse_result.ok
  THEN Ret(s, a.log, Reply("Request formatted incorrectly.", <<>>, <<>>))
  ELSE IF ~author_account.ok THEN Raise(s, a.log \o author_account.log, author_account.text)
  ELSE IF ~sender_account.ok
  THEN Raise(s, a.log \o author_account.log \o sender_account.log, sender_account.text)
  ELSE IF ~dest_account.ok THEN Raise(s, looked_up, dest_account.text)
  ELSE Ret(create_recurring_transfer(s),
           Append(looked_up,
                  E("create_recurring_transfer",
                    <<auth, parse_result.val.sender, parse_result.val.destination,
                      parse_result.val.amount * parse_result.val.tick_count,
                      parse_result.val.tick_count>>)),
           Reply("Recurring transfer set up with ID %s.", <<>>, <<ToString(s.recurring + 1)>>))

----------------------------------------------------------------------------
(* The command table and the help listing *)

Entry(usage, handler) == [usage |-> usage, handler |-> handler, len |-> 3, min |-> CITIZEN]
AdminEntry(usage, handler) == [usage |-> usage, handler |-> handler, len |-> 4, min |-> ADMIN]

\* COMMANDS[key] = (usage, description, handler[, minimum level]); len is
\* the length of the tuple, min its fourth element where there is one
COMMANDS ==
  [key \in {"help", "transfer", "open", "balance", "add-public-key", "proxy", "authorize",
            "admin-transfer", "list", "print-money", "admin-create-recurring-transfer",
            "admin-open"} |->
    CASE key = "help" -> Entry("help", "process_help")
      [] key = "transfer" -> Entry("transfer AMOUNT BENEFICIARY", "process_transfer")
      [] key = "open" -> Entry("open", "process_open_account")
      [] key = "balance" -> Entry("balance", "process_balance")
      [] key = "add-public-key" -> Entry("add-public-key", "process_add_public_key")
      [] key = "proxy" -> Entry("proxy dsa PROXIED_ACCOUNT SIGNATURE", "process_proxy_command")
      [] key = "authorize" ->
           AdminEntry("authorize ACCOUNT citizen|admin|developer", "process_authorization")
      [] key = "admin-transfer" ->
           AdminEntry("admin-transfer AMOUNT SENDER BENEFICIARY", "process_admin_transfer")
      [] key = "list" -> AdminEntry("list", "process_list_accounts")
      [] key = "print-money" ->
           AdminEntry("print-money AMOUNT BENEFICIARY", "process_print_money")
      [] key = "admin-create-recurring-transfer" ->
           AdminEntry("admin-create-recurring-transfer AMOUNT_PER_TICK SENDER BENEFICIARY TICK_COUNT",
                      "process_admin_create_recurring_transfer")
      [] key = "admin-open" -> AdminEntry("admin-open ACCOUNT_NAME", "process_admin_open_account")]

\* token in COMMANDS, and the key it is
IsCommand(tok) == Len(tok) = 1 /\ tok[1].c \in DOMAIN COMMANDS
CommandKey(tok) == tok[1].c

\* sorted(COMMANDS)
SortedCommands ==
  <<"add-public-key", "admin-create-recurring-transfer", "admin-open", "admin-transfer",
    "authorize", "balance", "help", "list", "open", "print-money", "proxy", "transfer">>

\* get_authorization_or_citizen with ADMIN as the default
get_authorization_or_citizen_admin(auth, s) ==
  IF has_account(s, auth) THEN get_authorization(s, auth) ELSE ADMIN

get_authorization_or_citizen(auth, s) ==
  IF has_account(s, auth) THEN get_authorization(s, auth) ELSE CITIZEN

\* listed with a strict comparison of the levels
listed_strict(key, auth, s) ==
  COMMANDS[key].len < 4 \/ get_authorization_or_citizen(auth, s) > COMMANDS[key].min

listed(key, auth, s) ==
  COMMANDS[key].len < 4 \/ get_authorization_or_citizen(auth, s) >= COMMANDS[key].min

\* the usage lines of the commands auth may use, by command name
list_commands(auth, s) ==
  LET keys == SelectSeq(SortedCommands, LAMBDA key : listed(key, auth, s)) IN
  [i \in 1..Len(keys) |-> COMMANDS[keys[i]].usage]

\* the account look-ups list_commands makes: one per entry with a minimum level
RECURSIVE list_commands_log(_, _, _)
list_commands_log(i, auth, s) ==
  IF i > Len(SortedCommands) THEN <<>>
  ELSE (IF COMMANDS[SortedCommands[i]].len < 4 THEN <<>>
        ELSE IF has_account(s, auth)
        THEN <<E("has_account", <<auth>>), E("get_account", <<auth>>)>>
        ELSE <<E("has_account", <<auth>>)>>)
       \o list_commands_log(i + 1, auth, s)

list_commands_as_markdown(auth, s) == list_commands(auth, s)

process_help(auth, msg, s) ==
  Ret(s, list_commands_log(1, auth, s),
      Reply("Hi %s! Here is a list of the commands I understand:", auth,
            list_commands_as_markdown(auth, s)))

----------------------------------------------------------------------------
(* Commands by proxy *)

\* the text without the one line end, if any, it ends with
StripOneLineEnd(text) ==
  IF Len(text) >= 2 /\ SubSeq(text, Len(text) - 1, Len(text)) = <<CR, NL>>
  THEN SubSeq(text, 1, Len(text) - 2)
  ELSE IF text # <<>> /\ text[Len(text)] \in LineEnds
  THEN SubSeq(text, 1, Len(text) - 1)
  ELSE text

\* parse_impl that strips one line end from the end of the command
parse_impl_strip_one(msg) ==
  LET split_message == SplitNL1(msg)
      proxy_line == split_message[1]
      command == StripOneLineEnd(split_message[2])
      proxy_elems == Split(proxy_line)
  IN
  IF Len(split_message) # 2 THEN [raised |-> FALSE, result |-> None]
  ELSE IF Len(proxy_elems) # 4 THEN [raised |-> FALSE, result |-> None]
  ELSE IF proxy_elems[2] # Tok("dsa") THEN [raised |-> FALSE, result |-> None]
  ELSE IF ~B64Valid(proxy_elems[4]) THEN [raised |-> TRUE, result |-> None]
  ELSE [raised |-> FALSE,
        result |-> Some([account_name |-> proxy_elems[3],
                         signature |-> B64Decode(proxy_elems[4]),
                         command |-> command])]

\* parse_impl without the comparison of the protocol field
parse_impl_any_protocol(msg) ==
  LET split_message == SplitNL1(msg)
      proxy_line == split_message[1]
      command == StripChars(split_message[2], LineEnds)
      proxy_elems == Split(proxy_line)
  IN
  IF Len(split_message) # 2 THEN [raised |-> FALSE, result |-> None]
  ELSE IF Len(proxy_elems) # 4 THEN [raised |-> FALSE, result |-> None]
  ELSE IF ~B64Valid(proxy_elems[4]) THEN [raised |-> TRUE, result |-> None]
  ELSE [raised |-> FALSE,
        result |-> Some([account_name |-> proxy_elems[3],
                         signature |-> B64Decode(proxy_elems[4]),
                         command |-> command])]

\* parse_impl: None, a raised CommandException, or (account_name, signature, command)
parse_impl(msg) ==
  LET split_message == SplitNL1(msg)
      proxy_line == split_message[1]
      command == StripChars(split_message[2], LineEnds)
      proxy_elems == Split(proxy_line)
  IN
  IF Len(split_message) # 2 THEN [raised |-> FALSE, result |-> None]
  ELSE IF Len(proxy_elems) # 4 THEN [raised |-> FALSE, result |-> None]
  ELSE IF proxy_elems[2] # Tok("dsa") THEN [raised |-> FALSE, result |-> None]
  ELSE IF ~B64Valid(proxy_elems[4]) THEN [raised |-> TRUE, result |-> None]
  ELSE [raised |-> FALSE,
        result |-> Some([account_name |-> proxy_elems[3],
                         signature |-> B64Decode(proxy_elems[4]),
                         command |-> command])]

parse_proxy_command(msg) ==
  LET result == parse_impl(msg) IN
  IF result.raised
  THEN [ok |-> FALSE, text |-> Reply("Invalid signature. %s", <<>>, <<>>), val |-> <<>>]
  ELSE IF ~result.result.ok
  THEN [ok |-> FALSE,
        text |-> Reply("Invalid formatting; expected proxy dsa PROXIED_ACCOUNT SIGNATURE followed by another command on the next line.",
                       <<>>, <<>>),
        val |-> <<>>]
  ELSE [ok |-> TRUE, text |-> Reply("", <<>>, <<>>), val |-> result.result.val]

\* compose_proxy_command that signs the command as it was handed in
compose_proxy_command_unstripped(proxied_account_name, key, command) ==
  LET stripped == Strip(command)
      command_hash == SHA3_512(command)
      signature == B64(Sign(key, command_hash))
  IN <<W("proxy"), SP, W("dsa"), SP>> \o proxied_account_name \o <<SP, signature, NL>> \o stripped

compose_proxy_command(proxied_account_name, key, command) ==
  LET stripped == Strip(command)
      command_hash == SHA3_512(stripped)
      signature == B64(Sign(key, command_hash))
  IN <<W("proxy"), SP, W("dsa"), SP>> \o proxied_account_name \o <<SP, signature, NL>> \o stripped

\* verify_loop with any_verified set outside the try statement: the first
\* key is taken to verify
verify_loop_unchecked(keys, i, command_hash, signature) ==
  IF i > Len(keys) THEN [any_verified |-> FALSE, log |-> <<>>]
  ELSE [any_verified |-> TRUE, log |-> <<E("verify", <<keys[i]>>)>>]

\* verify_loop without the break: every key from the i-th on is tried
verify_loop_no_break(keys, i, command_hash, signature) ==
  [any_verified |-> \E n \in i..Len(keys) : Verify(keys[n], command_hash, signature),
   log |-> [n \in 1..(Len(keys) - i + 1) |-> E("verify", <<keys[n + i - 1]>>)]]

\* the loop over account.list_public_keys(): the keys tried, and any_verified
RECURSIVE verify_loop(_, _, _, _)
verify_loop(keys, i, command_hash, signature) ==
  IF i > Len(keys) THEN [any_verified |-> FALSE, log |-> <<>>]
  ELSE IF Verify(keys[i], command_hash, signature)
  THEN [any_verified |-> TRUE, log |-> <<E("verify", <<keys[i]>>)>>]
  ELSE LET rest == verify_loop(keys, i + 1, command_hash, signature) IN
       [any_verified |-> rest.any_verified, log |-> <<E("verify", <<keys[i]>>)>> \o rest.log]

RECURSIVE process_command(_, _, _)

\* process_proxy_command from the loop over the keys on: the re-entry under
\* the proxied name when a key verified, else the CommandException
\* process_proxy_command that puts the name of the proxied account in front
\* of the command it re-enters
proxy_verified_named(parsed, account, loop, s) ==
  IF ~account.ok THEN Raise(s, account.log, account.text)
  ELSE IF loop.any_verified
  THEN After(Append(account.log, E("list_public_keys", <<parsed.account_name>>)) \o loop.log,
             process_command(parsed.account_name, parsed.account_name \o <<SP>> \o parsed.command, s))
  ELSE Raise(s, Append(account.log, E("list_public_keys", <<parsed.account_name>>)) \o loop.log,
             Reply("Cannot execute command by proxy because the signature is invalid.", <<>>, <<>>))

proxy_verified(parsed, account, loop, s) ==
  IF ~account.ok THEN Raise(s, account.log, account.text)
  ELSE IF loop.any_verified
  THEN After(Append(account.log, E("list_public_keys", <<parsed.account_name>>)) \o loop.log,
             process_command(parsed.account_name, parsed.command, s))
  ELSE Raise(s, Append(account.log, E("list_public_keys", <<parsed.account_name>>)) \o loop.log,
             Reply("Cannot execute command by proxy because the signature is invalid.", <<>>, <<>>))

\* process_proxy_command from the parsed envelope on: the account looked
\* up, the hash of the inner command, the keys tried
proxy_parsed(parsed, s) ==
  IF ~parsed.ok THEN Raise(s, <<>>, parsed.text)
  ELSE proxy_verified(parsed.val, assert_is_account(parsed.val.account_name, s),
                      verify_loop(list_public_keys(s, parsed.val.account_name), 1,
                                  SHA3_512(parsed.val.command), parsed.val.signature),
                      s)

\* process_proxy_command that re-enters process_command under the name of
\* the author of the proxy message
process_proxy_command_as_author(auth, msg, s) ==
  IF ~parse_proxy_command(msg).ok THEN proxy_parsed(parse_proxy_command(msg), s)
  ELSE proxy_verified([parse_proxy_command(msg).val EXCEPT !.account_name = auth],
                      assert_is_account(parse_proxy_command(msg).val.account_name, s),
                      IF has_account(s, parse_proxy_command(msg).val.account_name)
                      THEN verify_loop(list_public_keys(s, parse_proxy_command(msg).val.account_name), 1,
                                       SHA3_512(parse_proxy_command(msg).val.command),
                                       parse_proxy_command(msg).val.signature)
                      ELSE [any_verified |-> FALSE, log |-> <<>>],
                      s)

process_proxy_command(auth, msg, s) == proxy_parsed(parse_proxy_command(msg), s)

----------------------------------------------------------------------------
(* The dispatcher *)

\* cmd[2](author, message, server)
Handler(key, auth, msg, s) ==
  CASE key = "help" -> process_help(auth, msg, s)
    [] key = "transfer" -> process_transfer(auth, msg, s)
    [] key = "open" -> process_open_account(auth, msg, s)
    [] key = "balance" -> process_balance(auth, msg, s)
    [] key = "add-public-key" -> process_add_public_key(auth, msg, s)
    [] key = "proxy" -> process_proxy_command(auth, msg, s)
    [] key = "authorize" -> process_authorization(auth, msg, s)
    [] key = "admin-transfer" -> process_admin_transfer(auth, msg, s)
    [] key = "list" -> process_list_accounts(auth, msg, s)
    [] key = "print-money" -> process_print_money(auth, msg, s)
    [] key = "admin-create-recurring-transfer" -> process_admin_create_recurring_transfer(auth, msg, s)
    [] key = "admin-open" -> process_admin_open_account(auth, msg, s)

\* process_command without the except clause
Caught_not(r) == r

\* except CommandException as e: return str(e)
Caught(r) == [r EXCEPT !.raised = FALSE]

\* Dispatch without the check of the command's minimum level
Dispatch_ungated(key, auth, msg, s) ==
  After(<<E("handler", <<key>>)>>, Handler(key, auth, msg, s))

\* Dispatch that asks for an account of the author before every command
Dispatch_known_author(key, auth, msg, s) ==
  IF ~assert_is_account(auth, s).ok
  THEN Raise(s, assert_is_account(auth, s).log, assert_is_account(auth, s).text)
  ELSE Dispatch_ungated(key, auth, msg, s)

\* the body of the try statement: the gate, then the handler
Dispatch(key, auth, msg, s) ==
  LET cmd == COMMANDS[key]
      gated == cmd.len >= 4 /\ cmd.min > CITIZEN
      gate == assert_authorized(auth, s, cmd.min)
  IN
  IF gated /\ ~gate.ok THEN Raise(s, gate.log, gate.text)
  ELSE After((IF gated THEN gate.log ELSE <<>>) \o <<E("handler", <<key>>)>>,
             Handler(key, auth, msg, s))

process_command(auth, msg, s) ==
  LET split_msg == Split(msg)
      entered == <<E("process_command", <<auth, msg>>)>>
  IN
  IF Len(split_msg) = 0
  THEN Ret(s, entered \o list_commands_log(1, auth, s),
           Reply("Hi %s! You sent me an empty message. Here is a list of commands I do understand:",
                 auth, list_commands_as_markdown(auth, s)))
  ELSE IF IsCommand(split_msg[1])
  THEN After(entered, Caught(Dispatch(CommandKey(split_msg[1]), auth, msg, s)))
  ELSE Ret(s, entered \o list_commands_log(1, auth, s),
           Reply("Hi %s! I did not quite understand command your command %s. Here is a list of commands I do understand:",
                 auth, <<ToString(split_msg[1])>> \o list_commands_as_markdown(auth, s)))

----------------------------------------------------------------------------
(* Authors and messages *)

alice == Tok("alice")
bob == Tok("bob")
Authors == {alice, bob}

\* the texts  WORD ARG ...  of one command, well formed and not
HelpMessages == {Line(<<"help">>)}
OpenMessages == {Line(<<"open">>)}
BalanceMessages == {Line(<<"balance">>)}
ListMessages == {Line(<<"list">>)}

TransferMessages ==
  {Line(<<"transfer", "1", "bob">>), Line(<<"transfer", "1", "alice">>),
   Line(<<"transfer", "2", "bob">>), Line(<<"transfer", "0", "bob">>),
   Line(<<"transfer", "x", "bob">>), Line(<<"transfer", "1">>),
   Line(<<"transfer", "1", "bob", "now">>),
   <<NL, SP>> \o Line(<<"transfer", "1", "bob">>) \o <<CR, NL>>}

AdminTransferMessages ==
  {Line(<<"admin-transfer", "1", "alice", "bob">>), Line(<<"admin-transfer", "1", "bob", "alice">>),
   Line(<<"admin-transfer", "x", "alice", "bob">>), Line(<<"admin-transfer", "1", "alice">>)}

AuthorizeMessages ==
  {Line(<<"authorize", "bob", "admin">>), Line(<<"authorize", "bob", "citizen">>),
   Line(<<"authorize", "alice", "citizen">>), Line(<<"authorize", "alice", "DEVELOPER">>),
   Line(<<"authorize", "bob", "king">>), Line(<<"authorize", "bob">>)}

PrintMoneyMessages ==
  {Line(<<"print-money", "1", "alice">>), Line(<<"print-money", "1", "bob">>),
   Line(<<"print-money", "x", "bob">>), Line(<<"print-money", "1">>)}

RecurringMessages ==
  {Line(<<"admin-create-recurring-transfer", "1", "alice", "bob", "2">>),
   Line(<<"admin-create-recurring-transfer", "1", "alice", "bob", "x">>),
   Line(<<"admin-create-recurring-transfer", "1", "alice", "bob">>)}

AdminOpenMessages ==
  {Line(<<"admin-open", "bob">>), Line(<<"admin-open", "alice">>), Line(<<"admin-open">>),
   Line(<<"admin-open", "bob", "now">>)}

AddPublicKeyMessages ==
  {Line(<<"add-public-key">>) \o <<NL, Pem(k)>> : k \in Keys}
    \cup {Line(<<"add-public-key">>) \o <<NL, SP, NL, Pem("k2"), NL>>,
          Line(<<"add-public-key">>) \o <<NL, W("junk")>>,
          Line(<<"add-public-key">>)}

UnrecognizedMessages == {<<>>, <<SP, NL>>, Line(<<"hello">>), Line(<<"transfer1", "bob">>)}

\* a proxy message, part by part
Envelope(header, body) == JoinWith(header, SP) \o <<NL>> \o body
Signed(k, text) == <<B64(Sign(k, SHA3_512(text)))>>

Promote == Line(<<"authorize", "bob", "admin">>)

\* the commands clients sign, as they hand them to compose_proxy_command
ComposeBodies == {Line(<<"open">>), Promote, <<SP>> \o Line(<<"balance">>) \o <<NL, NL>>}

ComposedMessages ==
  {compose_proxy_command(n, k, b) : n \in Authors, k \in Keys, b \in ComposeBodies}
    \cup {compose_proxy_command(alice, "k1", compose_proxy_command(bob, "k2", Line(<<"open">>)))}

\* envelopes no client composed: changed after signing, or malformed
OtherEnvelopes ==
  {compose_proxy_command(alice, "k1", Promote) \o tail : tail \in {<<NL>>, <<CR, NL>>, <<SP>>}}
    \cup {Envelope(<<Tok("proxy"), Tok("dsa"), alice, Signed("k1", Promote)>>, <<NL>> \o Promote),
          Envelope(<<Tok("proxy"), Tok("dsa"), alice, Signed("k1", Promote)>>, Line(<<"open">>)),
          Envelope(<<Tok("proxy"), Tok("rsa"), alice, Signed("k1", Promote)>>, Promote),
          Envelope(<<Tok("proxy"), Tok("dsa"), alice, Tok("abc")>>, Promote),
          Envelope(<<Tok("proxy"), Tok("dsa"), alice, Tok("abcd")>>, Promote),
          Envelope(<<Tok("proxy"), Tok("dsa"), alice>>, Promote),
          Envelope(<<Tok("proxy"), Tok("dsa"), alice, Signed("k1", Promote), Tok("x")>>, Promote),
          JoinWith(<<Tok("proxy"), Tok("dsa"), alice, Signed("k1", <<>>)>>, SP),
          JoinWith(<<Tok("proxy"), Tok("dsa"), alice, Signed("k1", <<>>)>>, SP) \o <<NL>>}

ProxyMessages == ComposedMessages \cup OtherEnvelopes

----------------------------------------------------------------------------
(* The state machine: a message arrives, process_command answers it, the   *)
(* reply goes back to the caller                                           *)

NoReply == Reply("", <<>>, <<>>)

NoAccounts == [accounts |-> {}, auth |-> <<>>, balance |-> <<>>, keys |-> <<>>, recurring |-> 0]

\* the ledger of a bot whose operator made alice an administrator
Bootstrapped ==
  [accounts |-> {alice}, auth |-> (alice :> ADMIN), balance |-> (alice :> 0),
   keys |-> (alice :> <<"k1">>), recurring |-> 0]

Init ==
  /\ server \in {NoAccounts, Bootstrapped}
  /\ before = server
  /\ pc = "idle"
  /\ author = <<>>
  /\ message = <<>>
  /\ reply = NoReply
  /\ escaped = FALSE
  /\ calls = <<>>

WithinBounds(s) ==
  /\ \A n \in s.accounts : s.balance[n] \in 0..MaxBalance /\ Len(s.keys[n]) <= MaxKeys
  /\ s.recurring <= MaxRecurring

Messages ==
  HelpMessages \cup TransferMessages \cup OpenMessages \cup BalanceMessages
    \cup AddPublicKeyMessages \cup ProxyMessages \cup AuthorizeMessages
    \cup AdminTransferMessages \cup ListMessages \cup PrintMoneyMessages
    \cup RecurringMessages \cup AdminOpenMessages \cup UnrecognizedMessages

\* the caller gets what process_command(a, m, server) returned, r: the
\* reply, and the ledger as the run left it
Answer(a, m, r) ==
  /\ WithinBounds(r.s)
  /\ pc' = "replied"
  /\ author' = a
  /\ message' = m
  /\ before' = server
  /\ server' = r.s
  /\ reply' = r.text
  /\ escaped' = r.raised
  /\ calls' = r.log

\* the message m of a arrives and process_command answers it
Process(a, m) == Answer(a, m, process_command(a, m, server))

\* one action for each handler of COMMANDS, and one for the messages
\* process_command answers itself

Help == pc = "idle" /\ \E a \in Authors, m \in HelpMessages : Process(a, m)
Transfer == pc = "idle" /\ \E a \in Authors, m \in TransferMessages : Process(a, m)
Open == pc = "idle" /\ \E a \in Authors, m \in OpenMessages : Process(a, m)
Balance == pc = "idle" /\ \E a \in Authors, m \in BalanceMessages : Process(a, m)
AddPublicKey == pc = "idle" /\ \E a \in Authors, m \in AddPublicKeyMessages : Process(a, m)
Proxy == pc = "idle" /\ \E a \in Authors, m \in ProxyMessages : Process(a, m)
Authorize == pc = "idle" /\ \E a \in Authors, m \in AuthorizeMessages : Process(a, m)
AdminTransfer == pc = "idle" /\ \E a \in Authors, m \in AdminTransferMessages : Process(a, m)
List == pc = "idle" /\ \E a \in Authors, m \in ListMessages : Process(a, m)
PrintMoney == pc = "idle" /\ \E a \in Authors, m \in PrintMoneyMessages : Process(a, m)
AdminCreateRecurringTransfer == pc = "idle" /\ \E a \in Authors, m \in RecurringMessages : Process(a, m)
AdminOpen == pc = "idle" /\ \E a \in Authors, m \in AdminOpenMessages : Process(a, m)
Unrecognized == pc = "idle" /\ \E a \in Authors, m \in UnrecognizedMessages : Process(a, m)

\* the caller has the reply; nothing of the run stays in the core
Return ==
  /\ pc = "replied"
  /\ pc' = "idle"
  /\ author' = <<>>
  /\ message' = <<>>
  /\ reply' = NoReply
  /\ escaped' = FALSE
  /\ calls' = <<>>
  /\ before' = server
  /\ UNCHANGED server

Next ==
  \/ Help
  \/ Transfer
  \/ Open
  \/ Balance
  \/ AddPublicKey
  \/ Proxy
  \/ Authorize
  \/ AdminTransfer
  \/ List
  \/ PrintMoney
  \/ AdminCreateRecurringTransfer
  \/ AdminOpen
  \/ Unrecognized
  \/ Return

Spec == Init /\ [][Next]_vars

----------------------------------------------------------------------------
(* Reading a run's log *)

\* the positions of the process_command calls in a log: the message itself
\* first, then every command re-entered by proxy
Entries(log) == {i \in 1..Len(log) : log[i].op = "process_command"}
ActingAt(log, i) == log[i].args[1]
MessageAt(log, i) == log[i].args[2]

\* the command re-entered after the call at position i, if any
ReenteredAfter(log, i) == \E j \in Entries(log) : j > i

FirstWordIs(m, key) == Len(Split(m)) > 0 /\ Split(m)[1] = Tok(key)

MutatingCalls ==
  {"open_account", "authorize", "transfer", "print_money", "create_recurring_transfer",
   "add_public_key"}
Mutates(log) == \E i \in 1..Len(log) : log[i].op \in MutatingCalls

Called(log, op) == \E i \in 1..Len(log) : log[i].op = op
CalledAfter(log, i, op) == \E j \in (i + 1)..Len(log) : log[j].op = op
HandlerRanAfter(log, i, key) ==
  \E j \in (i + 1)..Len(log) : log[j].op = "handler" /\ log[j].args = <<key>>

NoAccountText(name) ==
  Reply("Sorry, I cannot process your request because %s does not have an account yet.", name, <<>>)
NotAuthorizedText(name) ==
  Reply("Sorry, I cannot process your request because %s does not have the required authorization.",
        name, <<>>)
InvalidSignatureText ==
  Reply("Cannot execute command by proxy because the signature is invalid.", <<>>, <<>>)

\* the run answered the message and left the ledger as it was
Rejected == server = before /\ ~Mutates(calls) /\ ~escaped /\ reply # NoReply

----------------------------------------------------------------------------
(* C1 *)

\* some registered key of the account named in the envelope p verifies its
\* signature over the digest of its inner command
SomeKeyVerifies(s, p) ==
  /\ has_account(s, p.account_name)
  /\ \E n \in 1..Len(s.keys[p.account_name]) :
       p.signature = Sign(s.keys[p.account_name][n], SHA3_512(p.command))

\* C1: a proxy message re-enters process_command only if the proxied account
\* exists and one of its registered keys verifies the signature over the
\* hash of the inner command; when the account is unknown or no key
\* verifies, the reply is an error text, nothing is re-entered and no
\* mutating call is made.
C1_ProxyOnlyWhenVerified ==
  pc = "replied" =>
    \A i \in Entries(calls) :
      FirstWordIs(MessageAt(calls, i), "proxy") =>
        LET p == parse_proxy_command(MessageAt(calls, i)) IN
        /\ ReenteredAfter(calls, i) => p.ok /\ SomeKeyVerifies(before, p.val)
        /\ (p.ok /\ ~SomeKeyVerifies(before, p.val)) =>
             /\ ~ReenteredAfter(calls, i)
             /\ reply \in {InvalidSignatureText, NoAccountText(p.val.account_name)}
             /\ Rejected

\* a proxy message for an account that has keys, none of which verifies, was refused
C1_Witness ==
  /\ pc = "replied"
  /\ FirstWordIs(message, "proxy")
  /\ parse_proxy_command(message).ok
  /\ has_account(before, parse_proxy_command(message).val.account_name)
  /\ before.keys[parse_proxy_command(message).val.account_name] # <<>>
  /\ reply = InvalidSignatureText

----------------------------------------------------------------------------
(* C2 *)

GatedCommands ==
  {"authorize", "admin-transfer", "list", "print-money", "admin-create-recurring-transfer",
   "admin-open"}

HasLevel(s, name, level) == has_account(s, name) /\ s.auth[name] >= level

\* C2: the handler of a command whose minimum level exceeds CITIZEN runs,
\* and the ledger changes, only if the acting account exists with at least
\* that level; otherwise the reply is a denial and the ledger is unchanged.
C2_GateBeforeHandler ==
  pc = "replied" =>
    \A i \in Entries(calls) : \A key \in GatedCommands :
      FirstWordIs(MessageAt(calls, i), key) =>
        LET a == ActingAt(calls, i) IN
        /\ HandlerRanAfter(calls, i, key) => HasLevel(before, a, ADMIN)
        /\ ~HasLevel(before, a, ADMIN) =>
             /\ ~HandlerRanAfter(calls, i, key)
             /\ reply \in {NoAccountText(a), NotAuthorizedText(a)}
             /\ Rejected

\* a citizen asked for the list of accounts and was denied
C2_Witness ==
  /\ pc = "replied"
  /\ FirstWordIs(message, "list")
  /\ has_account(before, author)
  /\ before.auth[author] = CITIZEN
  /\ reply = NotAuthorizedText(author)

----------------------------------------------------------------------------
(* C3 *)

\* C3: for a well-formed transfer command whose author and recipient have
\* accounts, can_transfer(author, recipient, amount) is called, transfer is
\* called only after it and only when it returned true, with the arguments
\* (author, author, recipient, amount).
C3_CanTransferBeforeTransfer ==
  pc = "replied" =>
    \A i \in Entries(calls) :
      LET m == MessageAt(calls, i)
          a == ActingAt(calls, i)
          body == Split(m)
      IN
      (/\ FirstWordIs(m, "transfer")
       /\ Len(body) = 3
       /\ IsInt(body[2])
       /\ has_account(before, a)
       /\ has_account(before, body[3])) =>
        LET check == E("can_transfer", <<a, body[3], ToInt(body[2])>>)
            move == E("transfer", <<a, a, body[3], ToInt(body[2])>>)
            checks == {j \in (i + 1)..Len(calls) : calls[j].op = "can_transfer"}
            moves == {j \in (i + 1)..Len(calls) : calls[j].op = "transfer"}
        IN
        /\ Cardinality(checks) = 1
        /\ \A j \in checks : calls[j] = check
        /\ \A k \in moves :
             /\ calls[k] = move
             /\ \E j \in checks : j < k
             /\ can_transfer(before, a, body[3], ToInt(body[2]))
        /\ ~can_transfer(before, a, body[3], ToInt(body[2])) => moves = {} /\ server = before

\* a transfer between two accounts went through
C3_Witness ==
  /\ pc = "replied"
  /\ FirstWordIs(message, "transfer")
  /\ Called(calls, "transfer")
  /\ author # Split(message)[3]
  /\ reply = Reply("Transfer performed successfully.", <<>>, <<>>)

----------------------------------------------------------------------------
(* C4 *)

\* what clients hand to compose_proxy_command: the commands they sign, and
\* an envelope another client composed
ComposeInputs == ComposeBodies \cup {compose_proxy_command(bob, "k2", Line(<<"open">>))}

KeyRegistered(s, name, k) ==
  has_account(s, name) /\ \E n \in 1..Len(s.keys[name]) : s.keys[name][n] = k

\* the command of the message was dispatched as name, with the text command
DispatchedAs(log, name, command) ==
  \E j \in Entries(log) : j > 1 /\ log[j] = E("process_command", <<name, command>>)

\* C4: a message composed by compose_proxy_command(n, k, b) is dispatched
\* as n, with the body that was signed, exactly when k is one of the
\* registered keys of n and the body handed to the verification, the text
\* after the header line without its line ends, is the body that was signed.
C4_RoundTrip ==
  pc = "replied" =>
    \A n \in Authors, k \in Keys, b \in ComposeInputs :
      message = compose_proxy_command(n, k, b) =>
        (DispatchedAs(calls, n, Strip(b))
           <=> /\ KeyRegistered(before, n, k)
               /\ parse_proxy_command(message).ok
               /\ parse_proxy_command(message).val.command = Strip(b))

\* bob's command, signed with white space around it, ran under the second key bob registered
C4_Witness ==
  /\ pc = "replied"
  /\ message = compose_proxy_command(bob, "k2", <<SP>> \o Line(<<"balance">>) \o <<NL, NL>>)
  /\ before.accounts = {alice, bob}
  /\ before.keys[bob] = <<"k1", "k2">>
  /\ DispatchedAs(calls, bob, Line(<<"balance">>))
  /\ reply.kind = "Hi there %s %s. The balance on your account is %s. Have a great day."

----------------------------------------------------------------------------
(* C5 *)

\* the ledger s without the account name
Without(s, name) ==
  [accounts |-> s.accounts \ {name},
   auth |-> [n \in s.accounts \ {name} |-> s.auth[n]],
   balance |-> [n \in s.accounts \ {name} |-> s.balance[n]],
   keys |-> [n \in s.accounts \ {name} |-> s.keys[n]],
   recurring |-> s.recurring]

\* C5 as it is worded: the denial an account below the minimum level gets
\* for a gated command is the denial the same author gets for it without
\* an account.
C5_SameDenialText ==
  pc = "replied" =>
    \A key \in GatedCommands :
      (/\ FirstWordIs(message, key)
       /\ has_account(before, author)
       /\ ~HasLevel(before, author, COMMANDS[key].min)) =>
        reply = process_command(author, message, Without(before, author)).text

\* C5: a gated command is denied to an acting account that does not exist
\* with the text that says the account does not exist, and to one below the
\* minimum level with the text that says the authorization is missing; the
\* two texts differ, and in both cases the handler does not run and the
\* ledger is unchanged.
C5_DenialNamesCause ==
  pc = "replied" =>
    \A i \in Entries(calls) : \A key \in GatedCommands :
      FirstWordIs(MessageAt(calls, i), key) =>
        LET a == ActingAt(calls, i) IN
        /\ ~has_account(before, a) => reply = NoAccountText(a)
        /\ (has_account(before, a) /\ ~HasLevel(before, a, COMMANDS[key].min)) =>
             reply = NotAuthorizedText(a)
        /\ ~HasLevel(before, a, COMMANDS[key].min) =>
             /\ NoAccountText(a) # NotAuthorizedText(a)
             /\ ~HandlerRanAfter(calls, i, key)
             /\ Rejected

\* an author without an account asked for money to be printed and was told
\* that the account does not exist
C5_Witness ==
  /\ pc = "replied"
  /\ FirstWordIs(message, "print-money")
  /\ ~has_account(before, author)
  /\ before.accounts # {}
  /\ reply = NoAccountText(author)

----------------------------------------------------------------------------
(* C6 *)

\* the account on whose behalf the call at position j of the log is made
ActingFor(log, j) ==
  ActingAt(log, CHOOSE i \in Entries(log) : i < j /\ \A n \in Entries(log) : n < j => n <= i)

LevelChanged(s, t) == \E n \in s.accounts \cap t.accounts : s.auth[n] # t.auth[n]

\* C6: server.authorize is called only on behalf of an acting account that
\* exists with at least the level ADMIN; whenever the level of an account
\* changed, such a call was made, so no message acted on below ADMIN
\* changes a level.
C6_AuthorizeOnlyByAdmin ==
  pc = "replied" =>
    /\ \A j \in 1..Len(calls) :
         calls[j].op = "authorize" =>
           /\ calls[j].args[1] = ActingFor(calls, j)
           /\ HasLevel(before, ActingFor(calls, j), ADMIN)
    /\ LevelChanged(before, server) => Called(calls, "authorize")
    /\ (\A i \in Entries(calls) : ~HasLevel(before, ActingAt(calls, i), ADMIN)) =>
         ~LevelChanged(before, server)

\* a citizen handed in a promotion the administrator signed, and it took effect
C6_Witness ==
  /\ pc = "replied"
  /\ author = bob
  /\ message = compose_proxy_command(alice, "k1", Promote)
  /\ has_account(before, bob)
  /\ before.auth[bob] = CITIZEN
  /\ Called(calls, "authorize")
  /\ server.auth[bob] = ADMIN

----------------------------------------------------------------------------
(* C7 *)

InvalidFormattingText ==
  Reply("Invalid formatting; expected proxy dsa PROXIED_ACCOUNT SIGNATURE followed by another command on the next line.",
        <<>>, <<>>)
InvalidBase64Text == Reply("Invalid signature. %s", <<>>, <<>>)

\* the header line of a proxy message, word by word
HeaderOf(m) == Split(SplitNL1(m)[1])

\* no line feed after the header, a header that is not four fields, a
\* protocol that is not dsa, or a signature that is not base64
MalformedEnvelope(m) ==
  \/ FirstNL(m) = 0
  \/ Len(HeaderOf(m)) # 4
  \/ HeaderOf(m)[2] # Tok("dsa")
  \/ ~B64Valid(HeaderOf(m)[4])

\* C7: a proxy message with a malformed envelope is answered with a text
\* that says so; no command is re-entered, no account is looked up, no key
\* is listed or tried, and the ledger is unchanged.
C7_MalformedEnvelope ==
  pc = "replied" =>
    \A i \in Entries(calls) :
      (FirstWordIs(MessageAt(calls, i), "proxy") /\ MalformedEnvelope(MessageAt(calls, i))) =>
        /\ reply \in {InvalidFormattingText, InvalidBase64Text}
        /\ ~ReenteredAfter(calls, i)
        /\ \A op \in {"has_account", "get_account", "list_public_keys", "verify"} :
             ~CalledAfter(calls, i, op)
        /\ Rejected

\* an envelope with the protocol rsa, signed with a registered key, was turned down
C7_Witness ==
  /\ pc = "replied"
  /\ FirstWordIs(message, "proxy")
  /\ Len(HeaderOf(message)) = 4
  /\ HeaderOf(message)[2] = Tok("rsa")
  /\ KeyRegistered(before, alice, "k1")
  /\ reply = InvalidFormattingText

----------------------------------------------------------------------------
(* C8 *)

OpenCalls(log, i) == {j \in (i + 1)..Len(log) : log[j].op = "open_account"}

\* the accounts of s are in t as they are in s
Kept(s, t) ==
  \A n \in s.accounts :
    /\ n \in t.accounts
    /\ t.auth[n] = s.auth[n]
    /\ t.balance[n] = s.balance[n]
    /\ t.keys[n] = s.keys[n]

\* C8: admin-open NAME, acted on for an account at ADMIN or above, opens
\* NAME with one open_account(NAME) call and says so when NAME has no
\* account, and answers that the account already exists, without calling
\* open_account, when it has one; acted on for a citizen or for a name
\* without an account it is denied and the accounts stay as they are.
C8_AdminOpen ==
  pc = "replied" =>
    \A i \in Entries(calls) :
      LET m == MessageAt(calls, i)
          a == ActingAt(calls, i)
          name == Split(m)[2]
      IN
      (FirstWordIs(m, "admin-open") /\ Len(Split(m)) = 2) =>
        /\ (HasLevel(before, a, ADMIN) /\ ~has_account(before, name)) =>
             /\ Cardinality(OpenCalls(calls, i)) = 1
             /\ \A j \in OpenCalls(calls, i) : calls[j] = E("open_account", <<name>>)
             /\ reply = Reply("Account %s has been opened successfully.", name, <<>>)
             /\ server.accounts = before.accounts \cup {name}
             /\ Kept(before, server)
             /\ ~escaped
        /\ ~HasLevel(before, a, ADMIN) =>
             /\ reply \in {NoAccountText(a), NotAuthorizedText(a)}
             /\ OpenCalls(calls, i) = {}
             /\ Rejected
        /\ (HasLevel(before, a, ADMIN) /\ has_account(before, name)) =>
             /\ reply = Reply("Account %s already exists.", name, <<>>)
             /\ OpenCalls(calls, i) = {}
             /\ Rejected

\* the administrator opened an account for bob
C8_Witness ==
  /\ pc = "replied"
  /\ author = alice
  /\ message = Line(<<"admin-open", "bob">>)
  /\ before.accounts = {alice}
  /\ server.accounts = {alice, bob}
  /\ reply = Reply("Account %s has been opened successfully.", bob, <<>>)

----------------------------------------------------------------------------
(* C9 *)

\* the command the reply answers: the one entered last
LastEntry(log) == CHOOSE i \in Entries(log) : \A j \in Entries(log) : j <= i

\* C9: a command acted on for an existing account whose level is at least
\* the minimum level of the command passes the gate, its handler runs, and
\* the reply is not the denial for a missing authorization.
C9_Monotonic ==
  pc = "replied" =>
    \A key \in DOMAIN COMMANDS :
      LET i == LastEntry(calls)
          a == ActingAt(calls, i)
      IN
      (FirstWordIs(MessageAt(calls, i), key) /\ HasLevel(before, a, COMMANDS[key].min)) =>
        /\ HandlerRanAfter(calls, i, key)
        /\ \A n \in Authors : reply # NotAuthorizedText(n)

\* a developer, above the level the command asks for, had the accounts listed
C9_Witness ==
  /\ pc = "replied"
  /\ FirstWordIs(message, "list")
  /\ has_account(before, author)
  /\ before.auth[author] = DEVELOPER
  /\ COMMANDS["list"].min = ADMIN
  /\ reply.kind = "| Account | Balance |"

----------------------------------------------------------------------------
(* C10 *)

\* C10: process_command ends with a reply text; no CommandException, be it
\* raised by a handler, by the gate, by the proxy parser or verification,
\* or under a command re-entered by proxy, leaves process_command.
C10_AlwaysReplies ==
  pc = "replied" =>
    /\ ~escaped
    /\ reply # NoReply
    /\ reply.kind # ""

\* the exception raised under a command re-entered by proxy came back as the reply
C10_Witness ==
  /\ pc = "replied"
  /\ FirstWordIs(message, "proxy")
  /\ Cardinality(Entries(calls)) = 2
  /\ FirstWordIs(MessageAt(calls, LastEntry(calls)), "proxy")
  /\ reply \in {NoAccountText(bob), InvalidSignatureText}
  /\ ~escaped

----------------------------------------------------------------------------
(* C11 *)

\* the characters of the command names, and their order in Python's
\* comparison of strings
Alphabet ==
  <<"-", "a", "b", "c", "d", "e", "f", "g", "h", "i", "j", "k", "l", "m", "n", "o", "p", "q",
    "r", "s", "t", "u", "v", "w", "x", "y", "z">>
Ord(ch) == CHOOSE n \in 1..Len(Alphabet) : Alphabet[n] = ch
Spelling(key) ==
    CASE key = "help" ->
         <<"h", "e", "l", "p">>
      [] key = "transfer" ->
         <<"t", "r", "a", "n", "s", "f", "e", "r">>
      [] key = "open" ->
         <<"o", "p", "e", "n">>
      [] key = "balance" ->
         <<"b", "a", "l", "a", "n", "c", "e">>
      [] key = "add-public-key" ->
         <<"a", "d", "d", "-", "p", "u", "b", "l", "i", "c", "-", "k", "e", "y">>
      [] key = "proxy" ->
         <<"p", "r", "o", "x", "y">>
      [] key = "authorize" ->
         <<"a", "u", "t", "h", "o", "r", "i", "z", "e">>
      [] key = "admin-transfer" ->
         <<"a", "d", "m", "i", "n", "-", "t", "r", "a", "n", "s", "f", "e", "r">>
      [] key = "list" ->
         <<"l", "i", "s", "t">>
      [] key = "print-money" ->
         <<"p", "r", "i", "n", "t", "-", "m", "o", "n", "e", "y">>
      [] key = "admin-create-recurring-transfer" ->
         <<"a", "d", "m", "i", "n", "-", "c", "r", "e", "a", "t", "e", "-", "r", "e", "c", "u", "r", "r", "i", "n", "g", "-", "t", "r", "a", "n", "s", "f", "e", "r">>
      [] key = "admin-open" ->
         <<"a", "d", "m", "i", "n", "-", "o", "p", "e", "n">>

\* x < y for strings: the first difference decides, a proper prefix is smaller
StrLess(x, y) ==
  \E n \in 1..(Len(y)) :
    /\ \A i \in 1..(n - 1) : i <= Len(x) /\ x[i] = y[i]
    /\ (n = Len(x) + 1 \/ (n <= Len(x) /\ Ord(x[n]) < Ord(y[n])))

KeyOfUsage(usage) == CHOOSE key \in DOMAIN COMMANDS : COMMANDS[key].usage = usage

\* the commands an account of the level may use
Allowed(level) ==
  {key \in DOMAIN COMMANDS : COMMANDS[key].len < 4 \/ COMMANDS[key].min <= level}

\* C11: for every caller and every ledger, list_commands gives the entries
\* of COMMANDS without a minimum level or with one at or below the level of
\* the caller, each once, ordered by command name; the help command
\* answers with that list, changes nothing, and answers the same again.
C11_Listing ==
  /\ pc = "idle" => \A a \in Authors :
       LET l == list_commands(a, server)
           again == process_help(a, Line(<<"help">>), process_help(a, Line(<<"help">>), server).s)
       IN
       /\ {KeyOfUsage(l[i]) : i \in 1..Len(l)} = Allowed(get_authorization_or_citizen(a, server))
       /\ \A i, j \in 1..Len(l) :
            i < j => StrLess(Spelling(KeyOfUsage(l[i])), Spelling(KeyOfUsage(l[j])))
       /\ process_help(a, Line(<<"help">>), server).s = server
       /\ ~Mutates(process_help(a, Line(<<"help">>), server).log)
       /\ again.text = process_help(a, Line(<<"help">>), server).text
       /\ again.text.items = l
  /\ (pc = "replied" /\ FirstWordIs(message, "help")) =>
       /\ reply.items = list_commands(author, before)
       /\ Rejected

\* an administrator asked for help and got all twelve commands, a citizen
\* would have got six
C11_Witness ==
  /\ pc = "replied"
  /\ message = Line(<<"help">>)
  /\ HasLevel(before, author, ADMIN)
  /\ has_account(before, bob)
  /\ before.auth[bob] = CITIZEN
  /\ Len(reply.items) = 12
  /\ Len(list_commands(bob, before)) = 6

----------------------------------------------------------------------------
(* C12 *)

EmptyMessageText ==
  "Hi %s! You sent me an empty message. Here is a list of commands I do understand:"
UnknownCommandText ==
  "Hi %s! I did not quite understand command your command %s. Here is a list of commands I do understand:"

\* the usage lines of the commands with a minimum level above CITIZEN
AdminUsages == {COMMANDS[key].usage : key \in GatedCommands}

\* the help listing at the end of a reply to a message without a command
ListingOf(r) == IF r.kind = UnknownCommandText THEN Tail(r.items) ELSE r.items

\* C12: a message without words, or whose first word is no command, is
\* answered with the empty-message or the unknown-command text and the
\* commands the acting account may use, those of a citizen when it has no
\* account; no handler runs and no mutating call is made.
C12_NoCommand ==
  pc = "replied" =>
    \A i \in Entries(calls) :
      LET m == MessageAt(calls, i)
          a == ActingAt(calls, i)
      IN
      (Len(Split(m)) = 0 \/ ~IsCommand(Split(m)[1])) =>
        /\ reply.kind = (IF Len(Split(m)) = 0 THEN EmptyMessageText ELSE UnknownCommandText)
        /\ reply.who = a
        /\ Len(Split(m)) > 0 => Head(reply.items) = ToString(Split(m)[1])
        /\ ListingOf(reply) = list_commands(a, before)
        /\ {KeyOfUsage(ListingOf(reply)[n]) : n \in 1..Len(ListingOf(reply))}
             = Allowed(IF has_account(before, a) THEN before.auth[a] ELSE CITIZEN)
        /\ ~has_account(before, a) =>
             \A n \in 1..Len(ListingOf(reply)) : ListingOf(reply)[n] \notin AdminUsages
        /\ \A j \in (i + 1)..Len(calls) : calls[j].op # "handler"
        /\ Rejected

\* an author without an account sent an unknown command while an
\* administrator exists, and got the six commands of a citizen
C12_Witness ==
  /\ pc = "replied"
  /\ message = Line(<<"hello">>)
  /\ ~has_account(before, author)
  /\ \E n \in before.accounts : before.auth[n] >= ADMIN
  /\ reply.kind = UnknownCommandText
  /\ Len(ListingOf(reply)) = 6

----------------------------------------------------------------------------
(* C13 *)

\* The parsers on their own: every command with a parser, with every
\* list of arguments over a few words, from no argument to MaxExtra more
\* than the parser asks for.

\* the ledger after the administrator opened an account for bob
WithBob == open_account(Bootstrapped, bob)

Arity(key) ==
  CASE key = "transfer" -> 3
    [] key = "admin-transfer" -> 4
    [] key = "authorize" -> 3
    [] key = "print-money" -> 3
    [] key = "admin-create-recurring-transfer" -> 5

ParsedCommands == {"transfer", "admin-transfer", "authorize", "print-money",
                   "admin-create-recurring-transfer"}

ArgWords(key) == IF key = "authorize" THEN {"bob", "admin", "x"} ELSE {"1", "bob", "x"}

\* the messages  key ARG ...  with up to Arity(key) - 1 + MaxExtra arguments
ParserMessages(key) ==
  {Line(<<key>> \o args) : args \in UNION {[1..n -> ArgWords(key)] : n \in 0..(Arity(key) - 1 + MaxExtra)}}

ParserInit ==
  /\ server \in {Bootstrapped, WithBob}
  /\ before = server
  /\ pc = "idle"
  /\ author = <<>>
  /\ message = <<>>
  /\ reply = NoReply
  /\ escaped = FALSE
  /\ calls = <<>>

ParseTransfer == pc = "idle" /\ \E a \in Authors, m \in ParserMessages("transfer") : Process(a, m)
ParseAdminTransfer ==
  pc = "idle" /\ \E a \in Authors, m \in ParserMessages("admin-transfer") : Process(a, m)
ParseAuthorization ==
  pc = "idle" /\ \E a \in Authors, m \in ParserMessages("authorize") : Process(a, m)
ParsePrintMoney ==
  pc = "idle" /\ \E a \in Authors, m \in ParserMessages("print-money") : Process(a, m)
ParseAdminCreateRecurringTransfer ==
  pc = "idle" /\ \E a \in Authors, m \in ParserMessages("admin-create-recurring-transfer") : Process(a, m)

ParserNext ==
  \/ ParseTransfer
  \/ ParseAdminTransfer
  \/ ParseAuthorization
  \/ ParsePrintMoney
  \/ ParseAdminCreateRecurringTransfer
  \/ Return

ParserSpec == ParserInit /\ [][ParserNext]_vars

\* the parser of the command key, applied to the message m
Parsed(key, m) ==
  CASE key = "transfer" -> parse_transfer_command(m)
    [] key = "admin-transfer" -> parse_admin_transfer_command(m)
    [] key = "authorize" -> parse_authorization(m)
    [] key = "print-money" -> parse_print_money(m)
    [] key = "admin-create-recurring-transfer" -> parse_admin_create_recurring_transfer(m)

\* the typed fields of the words of a message for key are what int() and
\* Authorization[] accept
Coerces(key, body) ==
  CASE key = "authorize" -> IsLevelName(body[3])
    [] key = "admin-create-recurring-transfer" -> IsInt(body[2]) /\ IsInt(body[5])
    [] OTHER -> IsInt(body[2])

\* the fields a parser returns, each from its word of the message
Fields(key, body) ==
  CASE key = "transfer" -> [amount |-> ToInt(body[2]), destination |-> body[3]]
    [] key = "admin-transfer" ->
         [sender |-> body[3], amount |-> ToInt(body[2]), destination |-> body[4]]
    [] key = "authorize" -> [beneficiary |-> body[2], auth_level |-> LevelOf(body[3])]
    [] key = "print-money" -> [amount |-> ToInt(body[2]), beneficiary |-> body[3]]
    [] key = "admin-create-recurring-transfer" ->
         [amount |-> ToInt(body[2]), sender |-> body[3], destination |-> body[4],
          tick_count |-> ToInt(body[5])]

\* C13: a parser returns None for a message with fewer or more words than
\* it asks for, or with a typed field that does not coerce, and otherwise
\* all its fields; after None the handler makes no mutating call and the
\* ledger is unchanged.
C13_ParserArity ==
  pc = "replied" =>
    \A key \in ParsedCommands :
      FirstWordIs(message, key) =>
        LET body == Split(message)
            malformed == Len(body) # Arity(key) \/ ~Coerces(key, body)
        IN
        /\ malformed => Parsed(key, message) = None /\ Rejected
        /\ ~malformed => Parsed(key, message) = Some(Fields(key, body))

\* the administrator, with a ledger on which the command would go through,
\* added a sixth word to it and was told it is formatted incorrectly
C13_Witness ==
  /\ pc = "replied"
  /\ author = alice
  /\ message = Line(<<"admin-create-recurring-transfer", "1", "bob", "bob", "1", "x">>)
  /\ has_account(before, bob)
  /\ before.recurring < MaxRecurring
  /\ reply = Reply("Request formatted incorrectly.", <<>>, <<>>)

----------------------------------------------------------------------------
(* C14 *)

\* the text after the first line feed of a proxy message
BodyOf(m) == SplitNL1(m)[2]

\* inner is text without a run of line ends at its start and one at its
\* end, and has no line end left at either end
WithoutLineEnds(text, inner) ==
  /\ \E p \in 0..Len(text) : \E q \in p..Len(text) :
       /\ inner = SubSeq(text, p + 1, q)
       /\ \A n \in 1..p : text[n] \in LineEnds
       /\ \A n \in (q + 1)..Len(text) : text[n] \in LineEnds
  /\ inner # <<>> => inner[1] \notin LineEnds /\ inner[Len(inner)] \notin LineEnds

\* C14 as it is worded: the inner command of a proxy message that parses
\* is the text after the first line feed without one line end at its end,
\* and otherwise as it is.
C14_SingleTerminatorStripped ==
  pc = "replied" =>
    \A i \in Entries(calls) :
      LET m == MessageAt(calls, i) IN
      (FirstWordIs(m, "proxy") /\ parse_proxy_command(m).ok) =>
        parse_proxy_command(m).val.command = StripOneLineEnd(BodyOf(m))

\* C14: the inner command of a proxy message that parses is the text
\* after the first line feed without the line feeds and carriage returns
\* at its start and at its end, however many; every other symbol of it,
\* white space included, is kept; that text is the one hashed and
\* verified, and the one re-entered.
C14_LineEndsStripped ==
  pc = "replied" =>
    \A i \in Entries(calls) :
      LET m == MessageAt(calls, i)
          p == parse_proxy_command(m)
      IN
      (FirstWordIs(m, "proxy") /\ p.ok) =>
        /\ WithoutLineEnds(BodyOf(m), p.val.command)
        /\ ReenteredAfter(calls, i) =>
             /\ \E n \in 1..Len(before.keys[p.val.account_name]) :
                  Verify(before.keys[p.val.account_name][n], SHA3_512(p.val.command), p.val.signature)
             /\ \E j \in Entries(calls) :
                  /\ j > i
                  /\ \A n \in Entries(calls) : n > i => j <= n
                  /\ MessageAt(calls, j) = p.val.command
        /\ (has_account(before, p.val.account_name) /\ ~ReenteredAfter(calls, i)) =>
             \A n \in 1..Len(before.keys[p.val.account_name]) :
               ~Verify(before.keys[p.val.account_name][n], SHA3_512(p.val.command), p.val.signature)

\* a signed command with a line feed in front of it was verified and run
\* without the line feed
C14_Witness ==
  /\ pc = "replied"
  /\ FirstWordIs(message, "proxy")
  /\ parse_proxy_command(message).ok
  /\ BodyOf(message) = <<NL>> \o Promote
  /\ ReenteredAfter(calls, 1)
  /\ Called(calls, "authorize")

----------------------------------------------------------------------------
(* C15 *)

\* the calls on the server that take the author of the command first
AuthoredCalls ==
  {"authorize", "transfer", "print_money", "create_recurring_transfer", "add_public_key"}

\* the command entered next after the one at position i
NextEntry(log, i) == CHOOSE j \in Entries(log) : j > i /\ \A n \in Entries(log) : n > i => j <= n

\* C15: a verified proxy message re-enters process_command with the
\* proxied account as author and the inner command as message; the
\* authorization checks and the authored calls of a command are made for
\* its acting account; a re-entered command with a minimum level has its
\* handler run exactly when the proxied account has that level.
C15_ReentryIdentity ==
  pc = "replied" =>
    /\ \A i \in Entries(calls) :
         ReenteredAfter(calls, i) =>
           LET p == parse_proxy_command(MessageAt(calls, i)) IN
           /\ FirstWordIs(MessageAt(calls, i), "proxy") /\ p.ok
           /\ calls[NextEntry(calls, i)] = E("process_command", <<p.val.account_name, p.val.command>>)
    /\ \A n \in 1..Len(calls) :
         /\ calls[n].op = "get_authorization" => calls[n].args = <<ActingFor(calls, n)>>
         /\ calls[n].op \in AuthoredCalls => calls[n].args[1] = ActingFor(calls, n)
    /\ \A j \in Entries(calls) : \A key \in GatedCommands :
         (j > 1 /\ FirstWordIs(MessageAt(calls, j), key)) =>
           (HandlerRanAfter(calls, j, key) <=> HasLevel(before, ActingAt(calls, j), COMMANDS[key].min))

\* an administrator handed in a promotion signed by a citizen with the
\* citizen's registered key, and it was denied to the citizen
C15_Witness ==
  /\ pc = "replied"
  /\ HasLevel(before, author, ADMIN)
  /\ \E k \in Keys :
       /\ message = compose_proxy_command(bob, k, Promote)
       /\ KeyRegistered(before, bob, k)
  /\ author # bob
  /\ ReenteredAfter(calls, 1)
  /\ reply = NotAuthorizedText(bob)

----------------------------------------------------------------------------
(* C16 *)

\* how many of keys the loop tries: up to the first one that verifies sig
\* over digest, all of them when none does
Tried(keys, digest, sig) ==
  IF \E n \in 1..Len(keys) : Verify(keys[n], digest, sig)
  THEN CHOOSE n \in 1..Len(keys) :
         /\ Verify(keys[n], digest, sig)
         /\ \A k \in 1..(n - 1) : ~Verify(keys[k], digest, sig)
  ELSE Len(keys)

\* C16: for a proxy message that parses and names an account, the keys
\* are listed once and tried in their stored order, each once, up to and
\* including the first that verifies and none after it; when a key
\* verified the inner command is entered right after, once.
C16_KeysInOrder ==
  pc = "replied" =>
    \A i \in Entries(calls) :
      LET m == MessageAt(calls, i)
          p == parse_proxy_command(m)
          keys == before.keys[p.val.account_name]
          digest == SHA3_512(p.val.command)
          tried == Tried(keys, digest, p.val.signature)
          listing == CHOOSE l \in (i + 1)..Len(calls) :
                       calls[l].op = "list_public_keys" /\ \A n \in (i + 1)..(l - 1) : calls[n].op # "list_public_keys"
          entered == E("process_command", <<p.val.account_name, p.val.command>>)
      IN
      (FirstWordIs(m, "proxy") /\ p.ok /\ has_account(before, p.val.account_name)) =>
        /\ CalledAfter(calls, i, "list_public_keys")
        /\ calls[listing] = E("list_public_keys", <<p.val.account_name>>)
        /\ Len(calls) >= listing + tried
        /\ \A n \in 1..tried : calls[listing + n] = E("verify", <<keys[n]>>)
        /\ Len(calls) > listing + tried => calls[listing + tried + 1].op # "verify"
        /\ IF \E n \in 1..Len(keys) : Verify(keys[n], digest, p.val.signature)
           THEN /\ Len(calls) > listing + tried
                /\ calls[listing + tried + 1] = entered
                /\ Cardinality({j \in Entries(calls) : j > i /\ calls[j] = entered}) = 1
           ELSE Len(calls) = listing + tried /\ ~ReenteredAfter(calls, i)

\* the first of two registered keys verified, and the second was not tried
C16_Witness ==
  /\ pc = "replied"
  /\ message = compose_proxy_command(bob, "k1", Line(<<"open">>))
  /\ has_account(before, bob)
  /\ before.keys[bob] = <<"k1", "k2">>
  /\ Cardinality({n \in 1..Len(calls) : calls[n].op = "verify"}) = 1
  /\ ReenteredAfter(calls, 1)

\* the second of two registered keys verified, after the first was tried
C16_WitnessSecondKey ==
  /\ pc = "replied"
  /\ message = compose_proxy_command(bob, "k2", Line(<<"open">>))
  /\ has_account(before, bob)
  /\ before.keys[bob] = <<"k1", "k2">>
  /\ Cardinality({n \in 1..Len(calls) : calls[n].op = "verify"}) = 2
  /\ ReenteredAfter(calls, 1)

----------------------------------------------------------------------------
(* C17 *)

\* Transfers by several workers at once.  Each worker takes one message
\* and runs process_command, process_transfer and perform_transfer on it
\* call by call; a call on the server is one step, and the steps of the
\* workers interleave.  Here pc, author, message and reply are functions
\* of the worker, before is the ledger the latest call was made on, and
\* calls holds that call.

Workers == {"w1", "w2"}

\* the ledger with accounts for alice and bob and the balances a and b
Funded(a, b) ==
  [accounts |-> {alice, bob}, auth |-> (alice :> ADMIN) @@ (bob :> CITIZEN),
   balance |-> (alice :> a) @@ (bob :> b),
   keys |-> (alice :> <<"k1">>) @@ (bob :> <<>>), recurring |-> 0]

ConcurrentMessages ==
  {Line(<<"transfer", "1", "bob">>), Line(<<"transfer", "1", "alice">>),
   Line(<<"transfer", "x", "bob">>)}

ConcurrentInit ==
  /\ server \in {Funded(a, b) : a, b \in 0..MaxBalance} \cup {Bootstrapped}
  /\ before = server
  /\ pc = [w \in Workers |-> "idle"]
  /\ author = [w \in Workers |-> <<>>]
  /\ message = [w \in Workers |-> <<>>]
  /\ reply = [w \in Workers |-> NoReply]
  /\ escaped = FALSE
  /\ calls = <<>>

\* the transfer the worker w is about, once its message is parsed
Wanted(w) == parse_transfer_command(message[w]).val

\* the worker w answers its message
Replies(w, text) ==
  /\ pc' = [pc EXCEPT ![w] = "replied"]
  /\ reply' = [reply EXCEPT ![w] = text]

\* process_command and process_transfer up to the call of perform_transfer
Accept(w) ==
  /\ pc[w] = "idle"
  /\ \E a \in Authors, m \in ConcurrentMessages :
       /\ author' = [author EXCEPT ![w] = a]
       /\ message' = [message EXCEPT ![w] = m]
       /\ IF parse_transfer_command(m).ok
          THEN pc' = [pc EXCEPT ![w] = "author"] /\ UNCHANGED reply
          ELSE Replies(w, Reply("Transfer formatted incorrectly.", <<>>, <<>>))
  /\ UNCHANGED <<server, before, escaped, calls>>

\* assert_is_account(name, server) at the position at of perform_transfer
LookUp(w, at, name, then) ==
  /\ pc[w] = at
  /\ before' = server
  /\ calls' = <<E("has_account", <<name>>)>>
  /\ IF assert_is_account(name, server).ok
     THEN pc' = [pc EXCEPT ![w] = then] /\ UNCHANGED reply
     ELSE Replies(w, assert_is_account(name, server).text)
  /\ UNCHANGED <<server, author, message, escaped>>

LookUpAuthor(w) == pc[w] = "author" /\ LookUp(w, "author", author[w], "sender")
LookUpSender(w) == pc[w] = "sender" /\ LookUp(w, "sender", author[w], "destination")
LookUpDestination(w) ==
  pc[w] = "destination" /\ LookUp(w, "destination", Wanted(w).destination, "can_transfer")

\* server.can_transfer(sender, dest, amount)
CheckTransfer(w) ==
  /\ pc[w] = "can_transfer"
  /\ before' = server
  /\ calls' = <<E("can_transfer", <<author[w], Wanted(w).destination, Wanted(w).amount>>)>>
  /\ IF can_transfer(server, author[w], Wanted(w).destination, Wanted(w).amount)
     THEN pc' = [pc EXCEPT ![w] = "transfer"] /\ UNCHANGED reply
     ELSE Replies(w, Reply("Sorry, but I cannot perform that transfer.", <<>>, <<>>))
  /\ UNCHANGED <<server, author, message, escaped>>

\* server.transfer(author, sender, dest, amount)
RequestTransfer(w) ==
  /\ pc[w] = "transfer"
  /\ before' = server
  /\ calls' = <<E("transfer", <<author[w], author[w], Wanted(w).destination, Wanted(w).amount>>)>>
  /\ server' = transfer(server, author[w], Wanted(w).destination, Wanted(w).amount)
  /\ Replies(w, Reply("Transfer performed successfully.", <<>>, <<>>))
  /\ UNCHANGED <<author, message, escaped>>

ConcurrentNext ==
  \/ \E w \in Workers : Accept(w)
  \/ \E w \in Workers : LookUpAuthor(w)
  \/ \E w \in Workers : LookUpSender(w)
  \/ \E w \in Workers : LookUpDestination(w)
  \/ \E w \in Workers : CheckTransfer(w)
  \/ \E w \in Workers : RequestTransfer(w)

ConcurrentSpec == ConcurrentInit /\ [][ConcurrentNext]_vars

\* C17: every transfer call is made on a ledger on which can_transfer
\* holds for its sender, destination and amount.
C17_TransferFeasible ==
  (calls # <<>> /\ calls[1].op = "transfer") =>
    can_transfer(before, calls[1].args[2], calls[1].args[3], calls[1].args[4])

\* one worker alone: its transfer call follows its can_transfer on the same ledger
C17_OneWorkerFeasible ==
  (calls # <<>> /\ calls[1].op = "transfer" /\ \E w \in Workers : pc[w] = "idle") =>
    can_transfer(before, calls[1].args[2], calls[1].args[3], calls[1].args[4])

\* two workers took alice's transfer of her whole balance to bob, both
\* were told it can go through, and the second transfer was requested on
\* an empty balance
C17_Race ==
  /\ calls # <<>>
  /\ calls[1] = E("transfer", <<alice, alice, bob, 1>>)
  /\ before.balance[alice] = 0
  /\ server.balance[alice] < 0
  /\ \A w \in Workers : pc[w] = "replied" /\ reply[w] = Reply("Transfer performed successfully.", <<>>, <<>>)

----------------------------------------------------------------------------
(* C18 *)

\* the number of lines of a text: one more than its line feeds
Lines(text) == 1 + Cardinality({i \in 1..Len(text) : text[i] = NL})

\* the text c is a part of the text m that starts after the first line of m
PartAfterHeader(m, c) ==
  /\ FirstNL(m) > 0
  /\ \E k \in FirstNL(m)..Len(m) : k + Len(c) <= Len(m) /\ SubSeq(m, k + 1, k + Len(c)) = c

\* C18: every run of process_command ends; the message of a re-entry is a
\* part of the message it came from that starts after its header line, so
\* it is shorter by that line and its line feed at least, and the number
\* of entries of a run is at most the number of lines of its message.
C18_ReentryShorter ==
  pc = "replied" =>
    /\ \A i \in Entries(calls) :
         ReenteredAfter(calls, i) =>
           /\ PartAfterHeader(MessageAt(calls, i), MessageAt(calls, NextEntry(calls, i)))
           /\ Len(MessageAt(calls, NextEntry(calls, i))) + FirstNL(MessageAt(calls, i))
                <= Len(MessageAt(calls, i))
           /\ Lines(MessageAt(calls, NextEntry(calls, i))) < Lines(MessageAt(calls, i))
    /\ Cardinality(Entries(calls)) <= Lines(message)
    /\ MessageAt(calls, 1) = message

\* an envelope in an envelope, both verified: three entries for a message
\* of three lines
C18_Witness ==
  /\ pc = "replied"
  /\ message = compose_proxy_command(alice, "k1", compose_proxy_command(bob, "k2", Line(<<"open">>)))
  /\ Cardinality(Entries(calls)) = 3
  /\ Lines(message) = 3
  /\ MessageAt(calls, LastEntry(calls)) = Line(<<"open">>)

----------------------------------------------------------------------------
(* C19 *)

\* a name that never has an account
carol == Tok("carol")

\* those who may hand in a message
Submitters == Authors \cup {carol}

\* the calls of a run after the entry of its message
CallsMade(log) == Tail(log)

\* C19: a proxy message handed in by another submitter on the same ledger,
\* with or without an account, gets the same reply, makes the same calls
\* in the same order and leaves the same ledger; an envelope that was
\* verified and re-entered is verified and re-entered again, for any
\* submitter, on the ledger the run left, as long as the keys of the
\* proxied account are those it was verified with.
C19_SubmitterIndependent ==
  (pc = "replied" /\ FirstWordIs(message, "proxy")) =>
    \A a \in Submitters \ {author} :
      LET other == process_command(a, message, before)
          again == process_command(a, message, server).log
      IN
      /\ other.text = reply
      /\ CallsMade(other.log) = CallsMade(calls)
      /\ other.s = server
      /\ other.raised = escaped
      /\ (/\ ReenteredAfter(calls, 1)
          /\ server.keys[ActingAt(calls, NextEntry(calls, 1))]
               = before.keys[ActingAt(calls, NextEntry(calls, 1))]) =>
           /\ ReenteredAfter(again, 1)
           /\ again[NextEntry(again, 1)] = calls[NextEntry(calls, 1)]

\* bob, who has no account, handed in the promotion alice signed; it was
\* verified and re-entered for alice, as it would have been for alice herself
C19_Witness ==
  /\ pc = "replied"
  /\ author = bob
  /\ ~has_account(before, bob)
  /\ message = compose_proxy_command(alice, "k1", Promote)
  /\ ReenteredAfter(calls, 1)
  /\ ActingAt(calls, NextEntry(calls, 1)) = alice
  /\ process_command(alice, message, before).text = reply

----------------------------------------------------------------------------
(* C20 *)

\* a ledger whose accounts are all citizens: alice with a key and money,
\* bob with a key
Ordinary(names) ==
  [accounts |-> names, auth |-> [n \in names |-> CITIZEN],
   balance |-> [n \in names |-> IF n = alice THEN MaxBalance ELSE 0],
   keys |-> [n \in names |-> IF n = alice THEN <<"k1">> ELSE <<"k2">>],
   recurring |-> 0]

\* the bot starts on a ledger without an administrator
NoAdminInit ==
  /\ server \in {Ordinary(names) : names \in SUBSET Authors}
  /\ before = server
  /\ pc = "idle"
  /\ author = <<>>
  /\ message = <<>>
  /\ reply = NoReply
  /\ escaped = FALSE
  /\ calls = <<>>

NoAdminSpec == NoAdminInit /\ [][Next]_vars

\* the message under which the call at position j of the log is made
MessageFor(log, j) ==
  MessageAt(log, CHOOSE i \in Entries(log) : i < j /\ \A n \in Entries(log) : n < j => n <= i)

\* C20: from a ledger without an account at ADMIN or above, no account is
\* ever at ADMIN or above, no handler of an ADMIN command runs, and no
\* authorize, print_money or create_recurring_transfer is called, nor an
\* open_account under admin-open or a transfer under admin-transfer.
C20_NoAdminEver ==
  /\ \A n \in server.accounts : server.auth[n] < ADMIN
  /\ pc = "replied" =>
       /\ \A op \in {"authorize", "print_money", "create_recurring_transfer"} : ~Called(calls, op)
       /\ \A i \in Entries(calls) : \A key \in GatedCommands : ~HandlerRanAfter(calls, i, key)
       /\ \A j \in 1..Len(calls) :
            /\ calls[j].op = "open_account" => FirstWordIs(MessageFor(calls, j), "open")
            /\ calls[j].op = "transfer" => FirstWordIs(MessageFor(calls, j), "transfer")

\* a promotion signed by the citizen alice with her registered key was
\* verified, re-entered, and denied
C20_Witness ==
  /\ pc = "replied"
  /\ message = compose_proxy_command(alice, "k1", Promote)
  /\ has_account(before, alice)
  /\ before.auth[alice] = CITIZEN
  /\ has_account(before, bob)
  /\ ReenteredAfter(calls, 1)
  /\ reply = NotAuthorizedText(alice)

====
